---- MODULE Spec2Model ----
(***************************************************************************)
(* Model of src/imap_delete11.py: the backward, time-windowed bulk delete  *)
(* of one mailbox over an IMAP session (delete_in_mailbox), the window     *)
(* generator it drives (iter_day_windows_backward), the signal handler     *)
(* that raises STOP_REQUESTED, and the part of main() around it.           *)
(*                                                                         *)
(* Dates are day numbers.  A remote call is one step: the retry wrappers   *)
(* (imap_call_with_retry, imap_uid_with_retry, try_select_exists_once)     *)
(* hand the engine either an OK result or a failure, and the engine only   *)
(* ever sees that result.  The server keeps the mailbox: the messages      *)
(* present, those flagged \Deleted, and how the mailbox is selected.       *)
(***************************************************************************)
EXTENDS Integers, Sequences, FiniteSets, TLC

\* ------------------------------------------------------------- bounds
\* Number of messages the mailbox holds at most.
MaxMsgs == 2
\* Day number of "today"; tomorrow is Today + 1.
Today == 3
\* Remote calls that may fail (after the wrapper's retries) in one run.
MaxFailures == 1
\* Number of messages a mailbox on the fast path holds at most.
FastMsgs == 10
\* Number of lines the server's LIST response holds at most.
MaxBoxes == 3

\* ------------------------------------------------ values of the inputs
\* hard_stop is 1 January of an earlier year: day 0 of the model.
HardStop == 0
Tomorrow == Today + 1
MsgDays == HardStop .. Today
BatchSizes == {1, 2}
WindowDaysChoices == {1, 2}
MaxWindowDaysChoices == {1, 3}
MaxEmptyWindowsChoices == {1, 3}
MaxWindowsChoices == {3, 9}
MinMessagesChoices == {0, 2}

Min(a, b) == IF a < b THEN a ELSE b
Max(a, b) == IF a > b THEN a ELSE b

VARIABLES
  args,               \* the parsed command line (main, after parse_args)
  STOP_REQUESTED,     \* the module-level flag the signal handler sets
  pc,                 \* position of the single thread of control
  log,                \* remote operations issued so far, in order
  fails,              \* remote calls that have failed so far
  msgs,               \* server: day of each message, by UID
  present,            \* server: UIDs still in the mailbox
  flagged,            \* server: UIDs carrying \Deleted
  selected,           \* server: "none", "ro" or "rw"
  exists,             \* delete_in_mailbox locals ...
  uids,
  bi,                 \* chunked()'s index i
  deleted,
  total_seen,
  total_deleted,
  empty_streak,
  nonempty_seen_once,
  cur_window_days,
  windows,            \* the name `windows`: the generator it is bound to
  it,                 \* the generator the for statement iterates
  win,                \* (start, end) of the current iteration
  remain,
  ret,                \* <<seen, deleted>> once delete_in_mailbox returned
  progress,           \* the Progress object's counters
  yielded,            \* windows the iterated generator has yielded
  stop_mid_batch,     \* whether the signal arrived while a batch was in flight
  pending,            \* main: contents of the mailboxes still to be processed
  done,               \* main: what each processed mailbox's call came to
  hist,               \* per window searched: its count, and whether it grew the span
  batches,            \* the batches a STORE was issued for, in order
  retry,              \* frame of a retry wrapper (imap_call_with_retry)
  disc,               \* discover_mailboxes: its arguments and its result
  sess                \* imap_delete12: run()'s frame and the session it opened

serverVars == <<msgs, present, flagged, selected>>
localVars == <<exists, uids, bi, deleted, total_seen, total_deleted,
               empty_streak, nonempty_seen_once, cur_window_days, windows,
               remain, ret, progress>>
genVars == <<it, win, yielded>>
mainVars == <<pending, done>>
histVars == <<mainVars, hist, batches>>
sideVars == <<retry, disc, sess>>
vars == <<args, STOP_REQUESTED, pc, log, fails, serverVars, localVars,
          genVars, stop_mid_batch, histVars, sideVars>>

\* --------------------------------------------- iter_day_windows_backward
\* The generator's frame; `end` and `produced` are the values at the loop test.
Generator(end_exclusive, span_days, hard_stop, max_windows) ==
  [end_exclusive |-> end_exclusive, end |-> end_exclusive, produced |-> 0,
   span_days |-> span_days, hard_stop |-> hard_stop,
   max_windows |-> max_windows]

\* while produced < max_windows and end > hard_stop
GenHasNextOff(produced, max_windows, end, hard_stop) ==
  produced <= max_windows /\ end > hard_stop

GenHasNext(produced, max_windows, end, hard_stop) ==
  produced < max_windows /\ end > hard_stop

\* if start < hard_stop: start = hard_stop
ClampStartOff(start, hard_stop) ==
  IF start < hard_stop THEN hard_stop + 1 ELSE start

ClampStart(start, hard_stop) == IF start < hard_stop THEN hard_stop ELSE start

\* start = end - span_days, clamped to hard_stop
WindowStartUnclamped(end, span_days, hard_stop) == end - span_days

WindowStart(end, span_days, hard_stop) ==
  ClampStart(end - span_days, hard_stop)

GenCanYield(g) == GenHasNext(g.produced, g.max_windows, g.end, g.hard_stop)
GenWindow(g) == <<WindowStart(g.end, g.span_days, g.hard_stop), g.end>>
\* end = start; produced += 1
GenAdvanceOff(g) ==
  [g EXCEPT !.end = WindowStart(g.end, g.span_days, g.hard_stop) + 1,
            !.produced = g.produced + 1]

GenAdvance(g) ==
  [g EXCEPT !.end = WindowStart(g.end, g.span_days, g.hard_stop),
            !.produced = g.produced + 1]

NoGenerator == Generator(0, 0, 0, 0)
NoArgs == [dry_run |-> TRUE, confirm |-> FALSE, batch_size |-> 1,
           window_days |-> 1, max_empty_windows |-> 1, max_windows |-> 1,
           min_messages |-> 0, adaptive_windows |-> FALSE,
           max_window_days |-> 1]
NoProgress == [windows |-> 0, deleted |-> 0, seen |-> 0]

\* The engine's state before delete_in_mailbox is entered.
IdleLocals ==
  /\ exists = 0 /\ uids = <<>> /\ bi = 0 /\ deleted = 0
  /\ total_seen = 0 /\ total_deleted = 0 /\ empty_streak = 0
  /\ nonempty_seen_once = FALSE /\ cur_window_days = 0
  /\ windows = NoGenerator /\ remain = <<>> /\ ret = <<>>
  /\ progress = NoProgress

\* One mailbox, nothing recorded, no wrapper or discovery frame.
NoFrame == <<>>
IdleHist == pending = <<>> /\ done = <<>> /\ hist = <<>> /\ batches = <<>>
IdleSide == retry = NoFrame /\ disc = NoFrame /\ sess = NoFrame

\* ---------------------------- the generator on its own, for any arguments
WinEnds == (HardStop - 1) .. (Tomorrow + 1)
WinSpans == -1 .. 3
WinHardStops == HardStop .. (HardStop + 2)
WinMaxWindows == -1 .. 4

InitWin ==
  /\ args = NoArgs /\ STOP_REQUESTED = FALSE /\ pc = "gen" /\ log = <<>>
  /\ fails = 0 /\ msgs = <<>> /\ present = {} /\ flagged = {}
  /\ selected = "none" /\ IdleLocals /\ stop_mid_batch = FALSE
  /\ IdleHist /\ IdleSide
  /\ \E e \in WinEnds, s \in WinSpans, h \in WinHardStops, m \in WinMaxWindows :
       it = Generator(e, s, h, m)
  /\ win = <<0, 0>> /\ yielded = <<>>

\* next(generator) when the loop test passes: yield (start, end)
GenYield ==
  /\ pc = "gen" /\ GenCanYield(it)
  /\ win' = GenWindow(it)
  /\ yielded' = Append(yielded, GenWindow(it))
  /\ it' = GenAdvance(it)
  /\ UNCHANGED <<args, STOP_REQUESTED, pc, log, fails, serverVars, localVars, stop_mid_batch,
                 histVars, sideVars>>

\* next(generator) when the loop test fails: StopIteration
GenStop ==
  /\ pc = "gen" /\ ~GenCanYield(it)
  /\ pc' = "gen_done"
  /\ UNCHANGED <<args, STOP_REQUESTED, log, fails, serverVars, localVars, genVars, stop_mid_batch,
                 histVars, sideVars>>

NextWin == GenYield \/ GenStop
SpecWin == InitWin /\ [][NextWin]_vars /\ WF_vars(NextWin)

\* ------------------------------------------------------------ helpers
\* chunked(seq, size): the batch that starts at index i (0-based)
chunkedShort(seq, i, size) == SubSeq(seq, i + 1, Min(i + size, Len(seq)) - 1)

chunked(seq, i, size) == SubSeq(seq, i + 1, Min(i + size, Len(seq)))

\* for i in range(0, len(seq), size): the index after i
NextBatchOff(i, size) == i

NextBatch(i, size) == i + size

SeqToSet(seq) == {seq[k] : k \in 1 .. Len(seq)}

\* UIDs in ascending order, as the server lists them
UidList(S) == SelectSeq([u \in 1 .. Len(msgs) |-> u], LAMBDA u : u \in S)

\* --------------------------------------------------------- the server
\* Outcomes a remote call may have: it succeeds, or (within the budget) it
\* fails for all of the wrapper's attempts.
Oks == IF fails < MaxFailures THEN {TRUE, FALSE} ELSE {TRUE}

Failed(ok) == IF ok THEN fails ELSE fails + 1

\* SELECT / EXAMINE: a failed one leaves no mailbox selected
SrvSelect(ok, readonly) ==
  IF ok THEN (IF readonly THEN "ro" ELSE "rw") ELSE "none"

\* EXISTS of a select, -1 when it failed (try_select_exists_once)
SrvExists(ok) == IF ok THEN Cardinality(present) ELSE -1

\* UID SEARCH ALL and UID SEARCH SINCE start BEFORE end; <<>> on failure
SrvSearchAll(ok) ==
  IF ok /\ selected # "none" THEN UidList(present) ELSE <<>>

SrvSearchWindowOff(ok, start, end) ==
  IF selected # "none"
  THEN UidList({u \in present : msgs[u] >= start /\ msgs[u] < end})
  ELSE <<>>

SrvSearchWindow(ok, start, end) ==
  IF ok /\ selected # "none"
  THEN UidList({u \in present : msgs[u] >= start /\ msgs[u] < end})
  ELSE <<>>

\* UID STORE +FLAGS.SILENT (\Deleted): refused unless selected read-write
SrvStore(ok, batch) ==
  IF ok /\ selected = "rw" THEN flagged \cup (SeqToSet(batch) \cap present)
  ELSE flagged

\* EXPUNGE: removes the flagged messages, read-write only
SrvExpunge(ok) ==
  IF ok /\ selected = "rw" THEN present \ flagged ELSE present

\* ------------------------------------------------ decisions of the code
\* main: not args.dry_run and not args.i_understand_this_deletes_mail
ConfirmationMissingOff(dry_run, confirm) == FALSE

ConfirmationMissing(dry_run, confirm) == ~dry_run /\ ~confirm

\* if exists < 0: the mailbox could not be opened
OpenFailedOff(n) == FALSE

OpenFailed(n) == n < 0

\* if exists == 0: return 0, 0
MailboxEmptyOff(n) == FALSE

MailboxEmpty(n) == n = 0

\* exists <= min_messages
FastPathOff(n, min_messages) == n < min_messages

FastPath(n, min_messages) == n <= min_messages

\* main passes dry_run=args.dry_run to delete_in_mailbox
DryRunParamOff(a) == FALSE

DryRunParam(a) == a.dry_run

\* the windowed scan selects read-only in dry-run, read-write otherwise
ScanReadonly(dry_run) == dry_run

\* if not dry_run: delete the window's UIDs in batches
DeleteBatchesOff(dry_run) == TRUE

DeleteBatches(dry_run) == ~dry_run

\* if STOP_REQUESTED: break  (top of main's loop over the mailboxes)
MailboxStopOff(stop) == FALSE

MailboxStop(stop) == stop

\* if STOP_REQUESTED: break  (top of the window loop)
WindowStopOff(stop) == FALSE

WindowStop(stop) == stop

\* if STOP_REQUESTED: break  (top of the batch loop of a window)
BatchStop(stop) == stop

\* adaptive_windows and empty_streak >= max_empty_windows
GrowthDueOff(adaptive, streak, max_empty) == adaptive /\ streak > max_empty

GrowthDue(adaptive, streak, max_empty) == adaptive /\ streak >= max_empty

\* new_days = min(cur_window_days * 2, max_window_days)
NewDays(cur, cap) == Min(cur * 2, cap)

\* progress.windows >= max(5, max_empty_windows)
EnoughWindowsOff(pwindows, max_empty) == pwindows >= max_empty

EnoughWindows(pwindows, max_empty) == pwindows >= Max(5, max_empty)

\* abort_allowed = nonempty_seen_once or progress.windows >= max(5, max_empty_windows)
AbortAllowedOff(nonempty, pwindows, max_empty) == pwindows >= Max(5, max_empty)

AbortAllowed(nonempty, pwindows, max_empty) ==
  nonempty \/ EnoughWindows(pwindows, max_empty)

\* if new_days > cur_window_days
SpanGrowsOff(new_days, cur) == TRUE

SpanGrows(new_days, cur) == new_days > cur

\* a non-empty window: empty_streak = 0
StreakAfterNonEmptyOff(streak) == streak

StreakAfterNonEmpty(streak) == 0

\* the results of STORE and of expunge are discarded: the loop goes on
BatchGoesOnOff(ok) == ok

BatchGoesOn(ok) == TRUE

\* empty_streak >= max_empty_windows and abort_allowed
AbortDueOff(streak, max_empty, allowed) == FALSE

AbortDue(streak, max_empty, allowed) == streak >= max_empty /\ allowed

\* if remain == 0: break
RecheckEmptyOff(r) == FALSE

RecheckEmpty(r) == r = 0

\* ------------------------------------------------------------- Init
SortedDays(n) ==
  {f \in [1 .. n -> MsgDays] : \A i \in 1 .. n - 1 : f[i] <= f[i + 1]}

Init ==
  /\ args \in [dry_run : BOOLEAN, confirm : BOOLEAN, batch_size : BatchSizes,
               window_days : WindowDaysChoices,
               max_empty_windows : MaxEmptyWindowsChoices,
               max_windows : MaxWindowsChoices,
               min_messages : MinMessagesChoices,
               adaptive_windows : BOOLEAN,
               max_window_days : MaxWindowDaysChoices]
  /\ STOP_REQUESTED = FALSE /\ pc = "main" /\ log = <<>> /\ fails = 0
  /\ msgs \in UNION {SortedDays(n) : n \in 0 .. MaxMsgs}
  /\ present = 1 .. Len(msgs) /\ flagged = {} /\ selected = "none"
  /\ IdleLocals
  /\ it = NoGenerator /\ win = <<0, 0>> /\ yielded = <<>>
  /\ stop_mid_batch = FALSE
  /\ IdleHist /\ IdleSide

\* Two mailboxes in the list: the same run, over fewer settings, with a
\* second mailbox of at most one message behind the first.
MultiArgs ==
  [dry_run : BOOLEAN, confirm : BOOLEAN, batch_size : {1},
   window_days : {1}, max_empty_windows : {1},
   max_windows : MaxWindowsChoices,
   min_messages : MinMessagesChoices, adaptive_windows : {FALSE},
   max_window_days : {1}]

InitMulti ==
  /\ args \in MultiArgs
  /\ STOP_REQUESTED = FALSE /\ pc = "main" /\ log = <<>> /\ fails = 0
  /\ msgs \in UNION {SortedDays(n) : n \in 0 .. MaxMsgs}
  /\ present = 1 .. Len(msgs) /\ flagged = {} /\ selected = "none"
  /\ IdleLocals
  /\ it = NoGenerator /\ win = <<0, 0>> /\ yielded = <<>>
  /\ stop_mid_batch = FALSE
  /\ pending \in {<<m>> : m \in UNION {SortedDays(n) : n \in {0, 1}}}
  /\ done = <<>> /\ hist = <<>> /\ batches = <<>>
  /\ IdleSide

Terminal == {"usage_error", "auth_failed", "list_failed", "exit_ok"}

\* a batch is in flight from its STORE to the end of its expunge
InFlight == {"fp_store", "fp_expunge", "w_store", "w_expunge"}

\* ------------------------------------------------------ signal handler
\* _handler: STOP_REQUESTED = True, at any point of the run
Signal ==
  /\ ~STOP_REQUESTED /\ pc \notin Terminal
  /\ STOP_REQUESTED' = TRUE
  /\ stop_mid_batch' = (pc \in InFlight)
  /\ UNCHANGED <<args, pc, log, fails, serverVars, localVars, genVars,
                 histVars, sideVars>>

\* --------------------------------------------------------------- main
\* the destructive-confirmation check, before anything is connected
MainCheck ==
  /\ pc = "main"
  /\ pc' = IF ConfirmationMissing(args.dry_run, args.confirm)
           THEN "usage_error" ELSE "login"
  /\ UNCHANGED <<args, STOP_REQUESTED, log, fails, serverVars, localVars,
                 genVars, stop_mid_batch,
                 histVars, sideVars>>

\* imap_login: connect and authenticate; a failure ends the run
Login ==
  /\ pc = "login"
  /\ \E ok \in Oks :
       /\ fails' = Failed(ok)
       /\ pc' = IF ok THEN "discover" ELSE "auth_failed"
  /\ log' = log \o <<"CONNECT", "LOGIN">>
  /\ UNCHANGED <<args, STOP_REQUESTED, serverVars, localVars, genVars, stop_mid_batch,
                 histVars, sideVars>>

\* discover_mailboxes: LIST; a failure raises, and the finally logs out
Discover ==
  /\ pc = "discover"
  /\ \E ok \in Oks :
       /\ fails' = Failed(ok)
       /\ pc' = IF ok THEN "mailbox" ELSE "list_failed"
       /\ log' = IF ok THEN Append(log, "LIST") ELSE log \o <<"LIST", "LOGOUT">>
  /\ UNCHANGED <<args, STOP_REQUESTED, serverVars, localVars, genVars, stop_mid_batch,
                 histVars, sideVars>>

\* for kind, name in mailboxes: if STOP_REQUESTED: break (and the finally
\* clause logs out), else delete_in_mailbox is entered
MailboxLoop ==
  /\ pc = "mailbox"
  /\ IF MailboxStop(STOP_REQUESTED)
     THEN pc' = "exit_ok" /\ log' = Append(log, "LOGOUT")
     ELSE pc' = "d_select" /\ log' = log
  /\ UNCHANGED <<args, STOP_REQUESTED, fails, serverVars, localVars, genVars,
                 stop_mid_batch,
                 histVars, sideVars>>

\* delete_in_mailbox returned: the totals, the pause, then the next mailbox
\* of the list, or the end of the loop and the logout of the finally clause
AfterMailbox ==
  /\ pc = "returned"
  /\ done' = Append(done, [exists |-> exists, ret |-> ret,
                           stopped |-> STOP_REQUESTED])
  /\ IF pending = <<>>
     THEN /\ log' = Append(log, "LOGOUT")
          /\ pc' = "exit_ok"
          /\ UNCHANGED <<serverVars, localVars, genVars, pending, hist, batches>>
     ELSE /\ log' = log
          /\ pc' = "mailbox"
          /\ msgs' = Head(pending) /\ pending' = Tail(pending)
          /\ present' = 1 .. Len(msgs') /\ flagged' = {} /\ selected' = "none"
          /\ exists' = 0 /\ uids' = <<>> /\ bi' = 0 /\ deleted' = 0
          /\ total_seen' = 0 /\ total_deleted' = 0 /\ empty_streak' = 0
          /\ nonempty_seen_once' = FALSE /\ cur_window_days' = 0
          /\ windows' = NoGenerator /\ remain' = <<>> /\ ret' = <<>>
          /\ progress' = NoProgress
          /\ it' = NoGenerator /\ win' = <<0, 0>> /\ yielded' = <<>>
          /\ hist' = <<>> /\ batches' = <<>>
  /\ UNCHANGED <<args, STOP_REQUESTED, fails, stop_mid_batch, sideVars>>

\* -------------------------------------------------- delete_in_mailbox
\* Progress.update(add_deleted, add_seen, inc_window)
ProgressUpdateOff(p, add_deleted, add_seen, inc_window) ==
  [windows |-> p.windows + 1,
   deleted |-> p.deleted + add_deleted, seen |-> p.seen + add_seen]

ProgressUpdate(p, add_deleted, add_seen, inc_window) ==
  [windows |-> p.windows + (IF inc_window THEN 1 ELSE 0),
   deleted |-> p.deleted + add_deleted, seen |-> p.seen + add_seen]

\* Progress.start_mailbox: windows = deleted = seen = 0
StartMailboxOff(p) == p

StartMailbox(p) == NoProgress

\* the first, read-only select; exists < 0, exists == 0 and the dry-run
\* fast path return from here
DSelect ==
  /\ pc = "d_select"
  /\ \E ok \in Oks :
       /\ fails' = Failed(ok)
       /\ selected' = SrvSelect(ok, TRUE)
       /\ exists' = SrvExists(ok)
  /\ log' = Append(log, "SELECT_RO")
  /\ progress' = IF OpenFailed(exists') THEN progress
                 ELSE StartMailbox(progress)
  /\ IF OpenFailed(exists') \/ MailboxEmpty(exists')
     THEN pc' = "returned" /\ ret' = <<0, 0>>
     ELSE IF FastPath(exists', args.min_messages)
          THEN IF DryRunParam(args)
               THEN pc' = "returned" /\ ret' = <<exists', 0>>
               ELSE pc' = "fp_select" /\ ret' = ret
          ELSE pc' = "w_select" /\ ret' = ret
  /\ UNCHANGED <<args, STOP_REQUESTED, msgs, present, flagged, uids, bi,
                 deleted, total_seen, total_deleted, empty_streak,
                 nonempty_seen_once, cur_window_days, windows, remain,
                 genVars, stop_mid_batch,
                 histVars, sideVars>>

\* fast path: select read-write, or give the mailbox up
FpSelect ==
  /\ pc = "fp_select"
  /\ \E ok \in Oks :
       /\ fails' = Failed(ok)
       /\ selected' = SrvSelect(ok, FALSE)
       /\ IF ok THEN pc' = "fp_search" /\ ret' = ret
          ELSE pc' = "returned" /\ ret' = <<0, 0>>
  /\ log' = Append(log, "SELECT_RW")
  /\ UNCHANGED <<args, STOP_REQUESTED, msgs, present, flagged, exists, uids,
                 bi, deleted, total_seen, total_deleted, empty_streak,
                 nonempty_seen_once, cur_window_days, windows, remain,
                 progress, genVars, stop_mid_batch,
                 histVars, sideVars>>

\* fast path: UID SEARCH ALL
FpSearch ==
  /\ pc = "fp_search"
  /\ \E ok \in Oks :
       /\ fails' = Failed(ok)
       /\ uids' = SrvSearchAll(ok)
  /\ log' = Append(log, "SEARCH_ALL")
  /\ deleted' = 0 /\ bi' = 0 /\ batches' = <<>>
  /\ pc' = "fp_loop"
  /\ UNCHANGED <<args, STOP_REQUESTED, serverVars, exists, total_seen,
                 total_deleted, empty_streak, nonempty_seen_once,
                 cur_window_days, windows, remain, ret, progress, genVars,
                 stop_mid_batch, mainVars, hist, sideVars>>

\* fast path: for batch in chunked(uids, batch_size)
FpLoop ==
  /\ pc = "fp_loop"
  /\ pc' = IF bi < Len(uids) THEN "fp_store" ELSE "fp_close"
  /\ UNCHANGED <<args, STOP_REQUESTED, log, fails, serverVars, localVars,
                 genVars, stop_mid_batch,
                 histVars, sideVars>>

FpStore ==
  /\ pc = "fp_store"
  /\ \E ok \in Oks :
       /\ fails' = Failed(ok)
       /\ flagged' = SrvStore(ok, chunked(uids, bi, args.batch_size))
       /\ pc' = IF BatchGoesOn(ok) THEN "fp_expunge" ELSE "fp_close"
  /\ log' = Append(log, "STORE")
  /\ batches' = Append(batches, chunked(uids, bi, args.batch_size))
  /\ UNCHANGED <<args, STOP_REQUESTED, msgs, present, selected, localVars,
                 genVars, stop_mid_batch, mainVars, hist, sideVars>>

\* expunge, deleted += len(batch), progress, pause
FpExpunge ==
  /\ pc = "fp_expunge"
  /\ \E ok \in Oks :
       /\ fails' = Failed(ok)
       /\ present' = SrvExpunge(ok)
       /\ flagged' = flagged \cap present'
       /\ pc' = IF BatchGoesOn(ok) THEN "fp_loop" ELSE "fp_close"
  /\ log' = Append(log, "EXPUNGE")
  /\ deleted' = deleted + Len(chunked(uids, bi, args.batch_size))
  /\ progress' = ProgressUpdate(progress,
                   Len(chunked(uids, bi, args.batch_size)), 0, FALSE)
  /\ bi' = NextBatch(bi, args.batch_size)
  /\ UNCHANGED <<args, STOP_REQUESTED, msgs, selected, exists, uids,
                 total_seen, total_deleted, empty_streak, nonempty_seen_once,
                 cur_window_days, windows, remain, ret, genVars, stop_mid_batch,
                 histVars, sideVars>>

\* close (which expunges what is still flagged) and return
SrvClose(ok) ==
  IF ok /\ selected = "rw" THEN present \ flagged ELSE present

FpClose ==
  /\ pc = "fp_close"
  /\ \E ok \in Oks :
       /\ fails' = Failed(ok)
       /\ present' = SrvClose(ok)
       /\ flagged' = flagged \cap present'
       /\ selected' = IF ok THEN "none" ELSE selected
  /\ log' = Append(log, "CLOSE")
  /\ ret' = <<exists, deleted>>
  /\ pc' = "returned"
  /\ UNCHANGED <<args, STOP_REQUESTED, msgs, exists, uids, bi, deleted,
                 total_seen, total_deleted, empty_streak, nonempty_seen_once,
                 cur_window_days, windows, remain, progress, genVars, stop_mid_batch,
                 histVars, sideVars>>

\* windowed scan: select again, set the counters up, create the generator
WSelect ==
  /\ pc = "w_select"
  /\ \E ok \in Oks :
       /\ fails' = Failed(ok)
       /\ selected' = SrvSelect(ok, ScanReadonly(DryRunParam(args)))
  /\ log' = Append(log, IF ScanReadonly(DryRunParam(args))
                        THEN "SELECT_RO" ELSE "SELECT_RW")
  /\ total_seen' = 0 /\ total_deleted' = 0 /\ empty_streak' = 0
  /\ nonempty_seen_once' = FALSE
  /\ cur_window_days' = Max(1, args.window_days)
  /\ windows' = Generator(Tomorrow, cur_window_days', HardStop, args.max_windows)
  /\ it' = windows'
  /\ hist' = <<>>
  /\ pc' = "w_loop"
  /\ UNCHANGED <<args, STOP_REQUESTED, msgs, present, flagged, exists, uids,
                 bi, deleted, remain, ret, progress, win, yielded, stop_mid_batch,
                 mainVars, batches, sideVars>>

\* for (start, end) in windows: the for statement asks the generator it
\* started with for its next window; then the stop check
WLoop ==
  /\ pc = "w_loop"
  /\ IF GenCanYield(it)
     THEN /\ win' = GenWindow(it)
          /\ yielded' = Append(yielded, GenWindow(it))
          /\ it' = GenAdvance(it)
          /\ pc' = IF WindowStop(STOP_REQUESTED) THEN "w_close" ELSE "w_search"
     ELSE /\ pc' = "w_close"
          /\ UNCHANGED genVars
  /\ UNCHANGED <<args, STOP_REQUESTED, log, fails, serverVars, localVars,
                 stop_mid_batch,
                 histVars, sideVars>>

\* one window: search it, count it, then the empty-window rules or the
\* start of its deletion
WSearch ==
  /\ pc = "w_search"
  /\ \E ok \in Oks :
       /\ fails' = Failed(ok)
       /\ uids' = SrvSearchWindow(ok, win[1], win[2])
  /\ log' = Append(log, "SEARCH_WIN")
  /\ total_seen' = total_seen + Len(uids')
  /\ progress' = ProgressUpdate(progress, 0, Len(uids'), TRUE)
  /\ IF Len(uids') = 0
     THEN /\ UNCHANGED <<nonempty_seen_once, bi, batches>>
          /\ IF /\ GrowthDue(args.adaptive_windows, empty_streak + 1,
                             args.max_empty_windows)
                /\ SpanGrows(NewDays(cur_window_days, args.max_window_days),
                             cur_window_days)
             THEN \* grow: the name `windows` is bound to a new generator; the
                  \* for statement keeps the iterator it evaluated at loop entry
                  /\ cur_window_days' = NewDays(cur_window_days, args.max_window_days)
                  /\ empty_streak' = 0
                  /\ windows' = Generator(win[1], cur_window_days', HardStop,
                                          args.max_windows)
                  /\ hist' = Append(hist, [count |-> 0, grew |-> TRUE])
                  /\ pc' = "w_loop"
             ELSE /\ empty_streak' = empty_streak + 1
                  /\ pc' = IF AbortDue(empty_streak', args.max_empty_windows,
                                       AbortAllowed(nonempty_seen_once,
                                                    progress'.windows,
                                                    args.max_empty_windows))
                           THEN "w_close" ELSE "w_loop"
                  /\ hist' = Append(hist, [count |-> 0, grew |-> FALSE])
                  /\ UNCHANGED <<cur_window_days, windows>>
     ELSE /\ nonempty_seen_once' = TRUE
          /\ empty_streak' = StreakAfterNonEmpty(empty_streak)
          /\ bi' = 0 /\ batches' = <<>>
          /\ hist' = Append(hist, [count |-> Len(uids'), grew |-> FALSE])
          /\ pc' = IF DeleteBatches(DryRunParam(args)) THEN "w_batch" ELSE "w_recheck"
          /\ UNCHANGED <<cur_window_days, windows>>
  /\ UNCHANGED <<args, STOP_REQUESTED, serverVars, exists, deleted,
                 total_deleted, remain, ret, genVars, stop_mid_batch,
                 mainVars, sideVars>>

\* for batch in chunked(uids, batch_size): if STOP_REQUESTED: break
WBatchLoop ==
  /\ pc = "w_batch"
  /\ pc' = IF bi < Len(uids) /\ ~BatchStop(STOP_REQUESTED)
           THEN "w_store" ELSE "w_recheck"
  /\ UNCHANGED <<args, STOP_REQUESTED, log, fails, serverVars, localVars,
                 genVars, stop_mid_batch,
                 histVars, sideVars>>

WStore ==
  /\ pc = "w_store"
  /\ \E ok \in Oks :
       /\ fails' = Failed(ok)
       /\ flagged' = SrvStore(ok, chunked(uids, bi, args.batch_size))
       /\ pc' = IF BatchGoesOn(ok) THEN "w_expunge" ELSE "w_close"
  /\ log' = Append(log, "STORE")
  /\ batches' = Append(batches, chunked(uids, bi, args.batch_size))
  /\ UNCHANGED <<args, STOP_REQUESTED, msgs, present, selected, localVars,
                 genVars, stop_mid_batch, mainVars, hist, sideVars>>

\* expunge, total_deleted += len(batch), progress, pause
WExpunge ==
  /\ pc = "w_expunge"
  /\ \E ok \in Oks :
       /\ fails' = Failed(ok)
       /\ present' = SrvExpunge(ok)
       /\ flagged' = flagged \cap present'
       /\ pc' = IF BatchGoesOn(ok) THEN "w_batch" ELSE "w_close"
  /\ log' = Append(log, "EXPUNGE")
  /\ total_deleted' = total_deleted + Len(chunked(uids, bi, args.batch_size))
  /\ progress' = ProgressUpdate(progress,
                   Len(chunked(uids, bi, args.batch_size)), 0, FALSE)
  /\ bi' = NextBatch(bi, args.batch_size)
  /\ UNCHANGED <<args, STOP_REQUESTED, msgs, selected, exists, uids, deleted,
                 total_seen, empty_streak, nonempty_seen_once,
                 cur_window_days, windows, remain, ret, genVars, stop_mid_batch,
                 histVars, sideVars>>

\* after a non-empty window: remain = try_select_exists_once(readonly=True)
WRecheck ==
  /\ pc = "w_recheck"
  /\ \E ok \in Oks :
       /\ fails' = Failed(ok)
       /\ selected' = SrvSelect(ok, TRUE)
       /\ remain' = <<SrvExists(ok)>>
  /\ log' = Append(log, "SELECT_RO")
  /\ pc' = IF RecheckEmpty(remain'[1]) THEN "w_close" ELSE "w_loop"
  /\ UNCHANGED <<args, STOP_REQUESTED, msgs, present, flagged, exists, uids,
                 bi, deleted, total_seen, total_deleted, empty_streak,
                 nonempty_seen_once, cur_window_days, windows, ret, progress,
                 genVars, stop_mid_batch,
                 histVars, sideVars>>

\* close and return (total_seen, total_deleted)
WClose ==
  /\ pc = "w_close"
  /\ \E ok \in Oks :
       /\ fails' = Failed(ok)
       /\ present' = SrvClose(ok)
       /\ flagged' = flagged \cap present'
       /\ selected' = IF ok THEN "none" ELSE selected
  /\ log' = Append(log, "CLOSE")
  /\ ret' = <<total_seen, total_deleted>>
  /\ pc' = "returned"
  /\ UNCHANGED <<args, STOP_REQUESTED, msgs, exists, uids, bi, deleted,
                 total_seen, total_deleted, empty_streak, nonempty_seen_once,
                 cur_window_days, windows, remain, progress, genVars, stop_mid_batch,
                 histVars, sideVars>>

Next ==
  \/ Signal
  \/ MainCheck \/ Login \/ Discover \/ MailboxLoop \/ AfterMailbox
  \/ DSelect
  \/ FpSelect \/ FpSearch \/ FpLoop \/ FpStore \/ FpExpunge \/ FpClose
  \/ WSelect \/ WLoop \/ WSearch \/ WBatchLoop \/ WStore \/ WExpunge
  \/ WRecheck \/ WClose

Spec == Init /\ [][Next]_vars
SpecMulti == InitMulti /\ [][Next]_vars

\* ------------------------------------------ the fast path on its own
\* delete_in_mailbox as its first select leaves it on a mailbox of up to
\* FastMsgs messages, with the default min_messages, in a destructive run:
\* about to select read-write.
DEFAULT_BATCH_SIZE == 50
DEFAULT_MIN_MESSAGES == 50
FastBatchSizes == {1, 2, 3, 4, 10, DEFAULT_BATCH_SIZE}

InitFast ==
  /\ \E b \in FastBatchSizes :
       args = [dry_run |-> FALSE, confirm |-> TRUE, batch_size |-> b,
               window_days |-> 1, max_empty_windows |-> 1, max_windows |-> 1,
               min_messages |-> DEFAULT_MIN_MESSAGES,
               adaptive_windows |-> FALSE, max_window_days |-> 1]
  /\ STOP_REQUESTED = FALSE /\ stop_mid_batch = FALSE
  /\ pc = "fp_select" /\ fails = 0
  /\ log = <<"CONNECT", "LOGIN", "LIST", "SELECT_RO">>
  /\ \E n \in 1 .. FastMsgs : msgs = [u \in 1 .. n |-> Today]
  /\ present = 1 .. Len(msgs) /\ flagged = {} /\ selected = "ro"
  /\ exists = Len(msgs) /\ uids = <<>> /\ bi = 0 /\ deleted = 0
  /\ total_seen = 0 /\ total_deleted = 0 /\ empty_streak = 0
  /\ nonempty_seen_once = FALSE /\ cur_window_days = 0
  /\ windows = NoGenerator /\ remain = <<>> /\ ret = <<>>
  /\ progress = NoProgress
  /\ it = NoGenerator /\ win = <<0, 0>> /\ yielded = <<>>
  /\ IdleHist /\ IdleSide

NextFast ==
  FpSelect \/ FpSearch \/ FpLoop \/ FpStore \/ FpExpunge \/ FpClose
SpecFast == InitFast /\ [][NextFast]_vars

\* ------------------------------------------------- the program run again
\* The same command line, on the same day, against the mailbox as the first
\* run left it: a new process and a new session.
TwiceArgs ==
  {a \in [dry_run : BOOLEAN, confirm : {TRUE}, batch_size : {1},
          window_days : WindowDaysChoices,
          max_empty_windows : MaxEmptyWindowsChoices,
          max_windows : {9},
          min_messages : MinMessagesChoices,
          adaptive_windows : BOOLEAN,
          max_window_days : MaxWindowDaysChoices] :
     a.dry_run \/ (a.window_days = 1 /\ a.max_empty_windows = 1 /\
                   ~a.adaptive_windows /\ a.max_window_days = 1)}

InitTwice ==
  /\ args \in TwiceArgs
  /\ STOP_REQUESTED = FALSE /\ pc = "main" /\ log = <<>> /\ fails = 0
  /\ msgs \in UNION {SortedDays(n) : n \in 0 .. MaxMsgs}
  /\ present = 1 .. Len(msgs) /\ flagged = {} /\ selected = "none"
  /\ IdleLocals
  /\ it = NoGenerator /\ win = <<0, 0>> /\ yielded = <<>>
  /\ stop_mid_batch = FALSE
  /\ IdleHist /\ IdleSide

Rerun ==
  /\ pc = "exit_ok" /\ Len(done) = 1
  /\ pc' = "main" /\ STOP_REQUESTED' = FALSE /\ stop_mid_batch' = FALSE
  /\ log' = <<>> /\ selected' = "none"
  /\ exists' = 0 /\ uids' = <<>> /\ bi' = 0 /\ deleted' = 0
  /\ total_seen' = 0 /\ total_deleted' = 0 /\ empty_streak' = 0
  /\ nonempty_seen_once' = FALSE /\ cur_window_days' = 0
  /\ windows' = NoGenerator /\ remain' = <<>> /\ ret' = <<>>
  /\ progress' = NoProgress
  /\ it' = NoGenerator /\ win' = <<0, 0>> /\ yielded' = <<>>
  /\ hist' = <<>> /\ batches' = <<>>
  /\ UNCHANGED <<args, fails, msgs, present, flagged, mainVars, sideVars>>

NextTwice == Next \/ Rerun
SpecTwice == InitTwice /\ [][NextTwice]_vars

\* ------------------------- imap_call_with_retry, imap_uid_with_retry
\* Everything but the frame under study is idle.
IdleEngine ==
  /\ args = NoArgs /\ STOP_REQUESTED = FALSE /\ log = <<>> /\ fails = 0
  /\ msgs = <<>> /\ present = {} /\ flagged = {} /\ selected = "none"
  /\ IdleLocals /\ stop_mid_batch = FALSE
  /\ it = NoGenerator /\ win = <<0, 0>> /\ yielded = <<>>
  /\ IdleHist

engineVars == <<args, STOP_REQUESTED, log, fails, serverVars, localVars,
               genVars, stop_mid_batch, histVars>>

\* What one attempt can come to: the status OK, another status, one of the
\* exceptions the except clause names, or an imaplib.IMAP4.error, which it
\* does not name.
NonOkStatuses == {"NO", "BAD"}
CaughtExceptions == {"abort", "timeout", "oserror"}
UncaughtExceptions == {"error"}
AttemptOutcomes ==
  {"OK"} \cup NonOkStatuses \cup CaughtExceptions \cup UncaughtExceptions

\* max_retries: the default, which every call in the program uses, and
\* smaller values
MaxRetriesDefault == 5
MaxRetriesChoices == {0, 2, MaxRetriesDefault}

\* if attempt < max_retries: backoff_sleep(attempt), else return 'NO'
RetryAgainOff(attempt, max_retries) == attempt <= max_retries

RetryAgain(attempt, max_retries) == attempt < max_retries

\* backoff_sleep: the delay, in hundredths of a second
\* time.sleep(0.8 * (2 ** attempt) + 0.25 * attempt)
backoff_sleepOff(attempt) == 80 * (2 ^ attempt) + 25

backoff_sleep(attempt) == 80 * (2 ^ attempt) + 25 * attempt

InitRetry ==
  /\ IdleEngine /\ disc = NoFrame /\ sess = NoFrame
  /\ pc = "r_try"
  /\ \E w \in {"imap_call_with_retry", "imap_uid_with_retry"},
        m \in MaxRetriesChoices :
       retry = [wrapper |-> w, max_retries |-> m, attempt |-> 0, tries |-> 0,
                failures |-> {}, slept |-> <<>>, result |-> ""]

\* for attempt in range(max_retries + 1): one call of the method; OK
\* returns, an exception that is not caught leaves the function; a loop that
\* runs out falls off the end of the function, which returns None
RetryAttempt ==
  /\ pc = "r_try"
  /\ IF retry.attempt > retry.max_retries
     THEN /\ retry' = [retry EXCEPT !.result = "None"]
          /\ pc' = "r_done"
     ELSE \E o \in AttemptOutcomes :
            /\ retry' = [retry EXCEPT
                 !.tries = @ + 1,
                 !.failures = IF o = "OK" THEN @ ELSE @ \cup {o},
                 !.result = IF o = "OK" THEN "OK"
                            ELSE IF o \in UncaughtExceptions THEN "raised"
                            ELSE @]
            /\ pc' = IF o = "OK" \/ o \in UncaughtExceptions
                     THEN "r_done" ELSE "r_failed"
  /\ UNCHANGED <<engineVars, disc, sess>>

\* after a failed attempt: back off and go round again, or give up
RetryBackoff ==
  /\ pc = "r_failed"
  /\ IF RetryAgain(retry.attempt, retry.max_retries)
     THEN /\ retry' = [retry EXCEPT
                 !.slept = Append(@, backoff_sleep(retry.attempt)),
                                    !.attempt = @ + 1]
          /\ pc' = "r_try"
     ELSE /\ retry' = [retry EXCEPT !.result = "NO"]
          /\ pc' = "r_done"
  /\ UNCHANGED <<engineVars, disc, sess>>

NextRetry == RetryAttempt \/ RetryBackoff
SpecRetry == InitRetry /\ [][NextRetry]_vars /\ WF_vars(NextRetry)

\* ------------------------------------------------- discover_mailboxes
\* Names are sequences of characters, so that lower() and the `in` test on
\* strings are computed as Python computes them.
UpperChars == <<"A", "B", "C", "D", "E", "F", "G", "H", "I", "J", "K", "L",
                "M", "N", "O", "P", "Q", "R", "S", "T", "U", "V", "W", "X",
                "Y", "Z">>
LowerChars == <<"a", "b", "c", "d", "e", "f", "g", "h", "i", "j", "k", "l",
                "m", "n", "o", "p", "q", "r", "s", "t", "u", "v", "w", "x",
                "y", "z">>

\* str.lower()
LowerChar(c) ==
  IF \E i \in 1 .. Len(UpperChars) : UpperChars[i] = c
  THEN LowerChars[CHOOSE i \in 1 .. Len(UpperChars) : UpperChars[i] = c]
  ELSE c

ToLower(str) == [i \in 1 .. Len(str) |-> LowerChar(str[i])]

\* sub in str
Contains(str, sub) ==
  \E i \in 0 .. (Len(str) - Len(sub)) : SubSeq(str, i + 1, i + Len(sub)) = sub

\* str.strip(), for blanks
RECURSIVE Strip(_)
Strip(str) ==
  IF str = <<>> THEN str
  ELSE IF Head(str) = " " THEN Strip(Tail(str))
  ELSE IF str[Len(str)] = " " THEN Strip(SubSeq(str, 1, Len(str) - 1))
  ELSE str

\* the literals of the function
StrInbox == <<"i", "n", "b", "o", "x">>
StrAllMail == <<"a", "l", "l", " ", "m", "a", "i", "l">>
StrGmail == <<"[", "g", "m", "a", "i", "l", "]">>

\* What a LIST response may hold, as (kind, name) after parse_list_line and
\* classify_mailbox; kind "" is None.
ListedBoxes ==
  { <<"", <<"I", "N", "B", "O", "X">>>>,
    <<"", <<"[", "G", "m", "a", "i", "l", "]">>>>,
    <<"all", <<"A", "l", "l", " ", "M", "a", "i", "l">>>>,
    <<"all", <<"A", "r", "c">>>>,
    <<"", <<"a", "l", "l", " ", "m", "a", "i", "l">>>>,
    <<"trash", <<"B", "i", "n">>>>,
    <<"trash", <<"I", "n", "b", "o", "x", "2">>>>,
    <<"spam", <<"J", "u", "n", "k">>>>,
    <<"", <<"W", "o", "r", "k">>>> }

IncludeChoices ==
  { <<>>, << <<"W", "O", "R", "K">> >>,
    << <<"b", "o", "x">>, <<"M", "A", "I", "L">> >> }
ExcludeChoices ==
  { <<>>, << <<"G", "M", "A", "I", "L">> >>,
    << <<"b", "i", "n">>, <<"w", "o", "r", "k">> >> }

\* any(sub.lower() in nstr for sub in filters)
AnyFilterInCased(filters, nstr) ==
  \E k \in 1 .. Len(filters) : Contains(nstr, filters[k])

AnyFilterIn(filters, nstr) ==
  \E k \in 1 .. Len(filters) : Contains(nstr, ToLower(filters[k]))

\* the loop over the listing: what is appended to `mailboxes`
KeptByFilters(box, include_filters, exclude_filters) ==
  LET nstr == ToLower(box[2]) IN
    /\ ~(include_filters # <<>> /\ ~AnyFilterIn(include_filters, nstr))
    /\ ~(exclude_filters # <<>> /\ AnyFilterIn(exclude_filters, nstr))
    /\ Strip(nstr) # StrGmail

InboxNamed(box) == Contains(ToLower(box[2]), StrInbox)
AllMailNamed(box) == Contains(ToLower(box[2]), StrAllMail)
InSeq(x, seq) == \E k \in 1 .. Len(seq) : seq[k] = x

\* De-dup preserve order
DedupOff(seq, seen) == seq

RECURSIVE Dedup(_, _)
Dedup(seq, seen) ==
  IF seq = <<>> THEN <<>>
  ELSE IF Head(seq) \in seen THEN Dedup(Tail(seq), seen)
  ELSE <<Head(seq)>> \o Dedup(Tail(seq), seen \cup {Head(seq)})

\* ordered = inboxes + all_mail + normals + trash + spam
OrderedGroupsSwapped(inboxes, all_mail, normals, trash, spam) ==
  inboxes \o normals \o all_mail \o trash \o spam

OrderedGroups(inboxes, all_mail, normals, trash, spam) ==
  inboxes \o all_mail \o normals \o trash \o spam

\* if only_important: the wanted mailboxes, inboxes + alls + others
ImportantOrder(mailboxes) ==
  LET wanted == SelectSeq(mailboxes, LAMBDA b :
                  InboxNamed(b) \/ b[1] = "all" \/ AllMailNamed(b))
      inboxes == SelectSeq(wanted, InboxNamed)
      alls == SelectSeq(wanted, LAMBDA b : b[1] = "all" \/ AllMailNamed(b))
      others == SelectSeq(wanted, LAMBDA b : ~InSeq(b, inboxes \o alls))
  IN inboxes \o alls \o others

\* the default ordering and the removal of duplicates
DefaultOrder(mailboxes) ==
  LET inboxes == SelectSeq(mailboxes, InboxNamed)
      all_mail == SelectSeq(mailboxes,
                    LAMBDA b : b[1] = "all" \/ AllMailNamed(b))
      normals == SelectSeq(mailboxes, LAMBDA b :
                   b[1] \notin {"all", "trash", "spam"} /\ ~InSeq(b, inboxes))
      trash == SelectSeq(mailboxes, LAMBDA b : b[1] = "trash")
      spam == SelectSeq(mailboxes, LAMBDA b : b[1] = "spam")
  IN Dedup(OrderedGroups(inboxes, all_mail, normals, trash, spam), {})

discover_mailboxes(boxes, include_filters, exclude_filters, only_important) ==
  LET mailboxes == SelectSeq(boxes, LAMBDA b :
                     KeptByFilters(b, include_filters, exclude_filters))
  IN IF only_important THEN ImportantOrder(mailboxes)
     ELSE DefaultOrder(mailboxes)

Listings == UNION {[1 .. n -> ListedBoxes] : n \in 0 .. MaxBoxes}

InitDiscover ==
  /\ IdleEngine /\ retry = NoFrame /\ sess = NoFrame
  /\ pc = "dm_call"
  /\ \E boxes \in Listings, inc \in IncludeChoices, exc \in ExcludeChoices,
        imp \in BOOLEAN :
       disc = [boxes |-> boxes, include_filters |-> inc,
               exclude_filters |-> exc, only_important |-> imp,
               result |-> <<>>]

\* the call, once LIST has answered
DiscoverMailboxes ==
  /\ pc = "dm_call"
  /\ disc' = [disc EXCEPT !.result =
                discover_mailboxes(disc.boxes, disc.include_filters,
                                   disc.exclude_filters, disc.only_important)]
  /\ pc' = "dm_done"
  /\ UNCHANGED <<engineVars, retry, sess>>

NextDiscover == DiscoverMailboxes
SpecDiscover == InitDiscover /\ [][NextDiscover]_vars

\* ------------------------------------------ the windowed scan on its own
\* delete_in_mailbox as its second select leaves it, in a run made ScanDays - 1
\* days after hard_stop on a mailbox of one message: about to ask the
\* generator for the first window.
ScanDays == 7

ScanMaxEmptyChoices == {1, 3, 6}

ScanArgs ==
  [dry_run : BOOLEAN, confirm : {TRUE}, batch_size : {1},
   window_days : WindowDaysChoices,
   max_empty_windows : ScanMaxEmptyChoices,
   max_windows : MaxWindowsChoices,
   min_messages : {0},
   adaptive_windows : BOOLEAN,
   max_window_days : MaxWindowDaysChoices]

InitScan ==
  /\ args \in ScanArgs
  /\ STOP_REQUESTED = FALSE /\ stop_mid_batch = FALSE
  /\ pc = "w_loop" /\ fails = 0
  /\ log = <<"CONNECT", "LOGIN", "LIST", "SELECT_RO",
             IF ScanReadonly(DryRunParam(args)) THEN "SELECT_RO" ELSE "SELECT_RW">>
  /\ \E d \in MsgDays : msgs = <<d>>
  /\ present = {1} /\ flagged = {}
  /\ selected = IF ScanReadonly(DryRunParam(args)) THEN "ro" ELSE "rw"
  /\ exists = 1 /\ uids = <<>> /\ bi = 0 /\ deleted = 0
  /\ total_seen = 0 /\ total_deleted = 0 /\ empty_streak = 0
  /\ nonempty_seen_once = FALSE
  /\ cur_window_days = Max(1, args.window_days)
  /\ windows = Generator(ScanDays, cur_window_days, HardStop, args.max_windows)
  /\ it = windows /\ win = <<0, 0>> /\ yielded = <<>>
  /\ remain = <<>> /\ ret = <<>>
  /\ progress = NoProgress
  /\ IdleHist /\ IdleSide

NextScan ==
  WLoop \/ WSearch \/ WBatchLoop \/ WStore \/ WExpunge \/ WRecheck \/ WClose
SpecScan == InitScan /\ [][NextScan]_vars

\* --------------------------------- delete_in_mailbox with any Progress
\* delete_in_mailbox about to make its first select, handed a Progress object
\* in any state: its counters need not be those of a new object.
ProgressStates == [windows : {0, 5}, deleted : {0, 2}, seen : {0, 3}]

ProgArgs ==
  [dry_run : BOOLEAN, confirm : {TRUE}, batch_size : {1},
   window_days : {1},
   max_empty_windows : MaxEmptyWindowsChoices,
   max_windows : {9},
   min_messages : {0},
   adaptive_windows : BOOLEAN,
   max_window_days : MaxWindowDaysChoices]

InitProg ==
  /\ args \in ProgArgs
  /\ STOP_REQUESTED = FALSE /\ stop_mid_batch = FALSE
  /\ pc = "d_select" /\ fails = 0
  /\ log = <<"CONNECT", "LOGIN", "LIST">>
  /\ msgs \in UNION {SortedDays(n) : n \in 0 .. MaxMsgs}
  /\ present = 1 .. Len(msgs) /\ flagged = {} /\ selected = "none"
  /\ exists = 0 /\ uids = <<>> /\ bi = 0 /\ deleted = 0
  /\ total_seen = 0 /\ total_deleted = 0 /\ empty_streak = 0
  /\ nonempty_seen_once = FALSE /\ cur_window_days = 0
  /\ windows = NoGenerator /\ remain = <<>> /\ ret = <<>>
  /\ progress \in ProgressStates
  /\ it = NoGenerator /\ win = <<0, 0>> /\ yielded = <<>>
  /\ IdleHist /\ IdleSide

NextProg ==
  \/ DSelect
  \/ WSelect
  \/ WLoop
  \/ WSearch
  \/ WBatchLoop
  \/ WStore
  \/ WExpunge
  \/ WRecheck
  \/ WClose

SpecProg == InitProg /\ [][NextProg]_vars

\* ------------------------------- delete_in_mailbox run to its return
\* One call of delete_in_mailbox, about to make its first select, with the
\* signal handler free to set STOP_REQUESTED at any point; the steps of the
\* function are taken as long as one is possible.
TermArgs ==
  [dry_run : BOOLEAN, confirm : {TRUE}, batch_size : {1},
   window_days : {1},
   max_empty_windows : {1},
   max_windows : {3},
   min_messages : MinMessagesChoices,
   adaptive_windows : BOOLEAN,
   max_window_days : {3}]

InitTerm ==
  /\ args \in TermArgs
  /\ STOP_REQUESTED = FALSE /\ stop_mid_batch = FALSE
  /\ pc = "d_select" /\ fails = 0
  /\ log = <<"CONNECT", "LOGIN", "LIST">>
  /\ msgs \in UNION {SortedDays(n) : n \in 0 .. MaxMsgs}
  /\ present = 1 .. Len(msgs) /\ flagged = {} /\ selected = "none"
  /\ IdleLocals
  /\ it = NoGenerator /\ win = <<0, 0>> /\ yielded = <<>>
  /\ IdleHist /\ IdleSide

EngineStep ==
  \/ DSelect
  \/ FpSelect
  \/ FpSearch
  \/ FpLoop
  \/ FpStore
  \/ FpExpunge
  \/ FpClose
  \/ WSelect
  \/ WLoop
  \/ WSearch
  \/ WBatchLoop
  \/ WStore
  \/ WExpunge
  \/ WRecheck
  \/ WClose

NextTerm == Signal \/ EngineStep

SpecTerm == InitTerm /\ [][NextTerm]_vars /\ WF_vars(EngineStep)

\* ------------------------------------------- imap_delete12: run and helpers
\* Messages of the selected mailbox, by sequence number
MaxIds == 2

Mailbox12 == 1 .. MaxIds

\* What imap_search may return: the matching sequence numbers, ascending
IdLists ==
  {SelectSeq([k \in 1 .. MaxIds |-> k], LAMBDA u : u \in S) :
     S \in SUBSET Mailbox12}

\* What a call on the session can come to: the status OK, another status, an
\* imaplib.IMAP4.error (abort included) or an OSError.
CallOutcomes == {"OK", "NO", "error", "oserror"}

Raises(o) == o \in {"error", "oserror"}

should_deleteOff(dry_run, confirmed) == confirmed

should_delete(dry_run, confirmed) == IF dry_run THEN FALSE ELSE confirmed

\* except (imaplib.IMAP4.error, OSError): pass
CloseCaughtOff(exc) == FALSE

CloseCaught(exc) == exc \in {"error", "oserror"}

RunModes == {"run", "test", "install_deps"}

InitRun12 ==
  /\ pc = "r_start"
  /\ IdleEngine /\ retry = NoFrame /\ disc = NoFrame
  /\ \E m \in RunModes, d \in BOOLEAN, c \in BOOLEAN :
       sess = [mode |-> m, dry_run |-> d, confirmed |-> c,
               present |-> Mailbox12, flagged |-> {}, ids |-> <<>>,
               di |-> 1, ops |-> <<>>, refused |-> {}, exc |-> "",
               closed |-> "none", result |-> "none"]

Idle12 == UNCHANGED <<engineVars, retry, disc>>

\* run: the two modes that return before a session is opened
Run ==
  /\ pc = "r_start"
  /\ IF sess.mode # "run"
       THEN pc' = "r_exit" /\ sess' = [sess EXCEPT !.result = "mode_done"]
       ELSE pc' = "r_open" /\ sess' = sess
  /\ Idle12

\* open_imap_session, outside the try statement: IMAP4_SSL(...) and login
OpenImapSession ==
  /\ pc = "r_open"
  /\ \E o \in {"OK", "error", "oserror"} :
       /\ sess' = [sess EXCEPT
            !.ops = IF o = "oserror" THEN <<"CONNECT">>
                    ELSE <<"CONNECT", "LOGIN">>,
            !.exc = IF o = "OK" THEN "" ELSE o,
            !.result = IF o = "OK" THEN "none" ELSE "raised"]
       /\ pc' = IF o = "OK" THEN "r_select" ELSE "r_exit"
  /\ Idle12

\* prepare_mailbox -> imap_select: a status other than OK raises RuntimeError
PrepareMailbox ==
  /\ pc = "r_select"
  /\ \E o \in CallOutcomes :
       /\ sess' = [sess EXCEPT
            !.ops = Append(@, "SELECT"),
            !.exc = IF o = "OK" THEN "" ELSE IF o = "NO" THEN "runtime" ELSE o]
       /\ pc' = IF o = "OK" THEN "r_search" ELSE "r_close"
  /\ Idle12

\* discover_targets -> imap_search
ImapSearch ==
  /\ pc = "r_search"
  /\ \E o \in CallOutcomes :
       IF o = "OK"
         THEN \E l \in IdLists :
                /\ sess' = [sess EXCEPT !.ops = Append(@, "SEARCH"),
                                        !.ids = l]
                /\ pc' = "r_fetch"
         ELSE /\ sess' = [sess EXCEPT
                   !.ops = Append(@, "SEARCH"),
                   !.exc = IF o = "NO" THEN "runtime" ELSE o]
              /\ pc' = "r_close"
  /\ Idle12

\* discover_targets -> imap_fetch_sizes: a status other than OK adds nothing
ImapFetchSizes ==
  /\ pc = "r_fetch"
  /\ \E o \in {"OK", "error", "oserror"} :
       /\ sess' = [sess EXCEPT
            !.ops = IF sess.ids = <<>> THEN @ ELSE Append(@, "FETCH"),
            !.exc = IF o = "OK" \/ sess.ids = <<>> THEN "" ELSE o]
       /\ pc' = IF o = "OK" \/ sess.ids = <<>> THEN "r_maybe" ELSE "r_close"
  /\ Idle12

\* maybe_delete, up to the call of do_delete_flow
MaybeDelete ==
  /\ pc = "r_maybe"
  /\ pc' = IF sess.ids = <<>> THEN "r_close"
           ELSE IF should_delete(sess.dry_run, sess.confirmed) THEN "r_store"
           ELSE "r_close"
  /\ sess' = [sess EXCEPT !.di = 1]
  /\ Idle12

\* imap_mark_deleted: one STORE per id, its status not looked at
ImapMarkDeleted ==
  /\ pc = "r_store"
  /\ IF sess.di > Len(sess.ids)
       THEN pc' = "r_expunge" /\ sess' = sess
       ELSE \E o \in CallOutcomes :
              LET mid == sess.ids[sess.di] IN
              /\ sess' = [sess EXCEPT
                   !.ops = Append(@, "STORE"),
                   !.flagged = IF o = "OK" THEN @ \cup {mid} ELSE @,
                   !.refused = IF o = "OK" THEN @ ELSE @ \cup {mid},
                   !.di = IF Raises(o) THEN @ ELSE @ + 1,
                   !.exc = IF Raises(o) THEN o ELSE ""]
              /\ pc' = IF Raises(o) THEN "r_close" ELSE "r_store"
  /\ Idle12

\* imap_expunge, the last call of do_delete_flow
ImapExpunge ==
  /\ pc = "r_expunge"
  /\ \E o \in CallOutcomes :
       /\ sess' = [sess EXCEPT
            !.ops = Append(@, "EXPUNGE"),
            !.present = IF o = "OK" THEN @ \ sess.flagged ELSE @,
            !.exc = IF Raises(o) THEN o ELSE ""]
       /\ pc' = "r_close"
  /\ Idle12

\* close_session: imap.close() inside its try statement
CloseSessionClose ==
  /\ pc = "r_close"
  /\ \E o \in CallOutcomes :
       IF Raises(o) /\ ~CloseCaught(o)
         THEN /\ sess' = [sess EXCEPT !.ops = Append(@, "CLOSE"),
                                      !.closed = o,
                                      !.exc = o, !.result = "raised"]
              /\ pc' = "r_exit"
         ELSE /\ sess' = [sess EXCEPT
                   !.ops = Append(@, "CLOSE"),
                   !.closed = o,
                   !.present = IF o = "OK" THEN @ \ sess.flagged ELSE @]
              /\ pc' = "r_logout"
  /\ Idle12

\* close_session: imap.logout() inside its try statement, then run is left
CloseSessionLogout ==
  /\ pc = "r_logout"
  /\ \E o \in CallOutcomes :
       /\ sess' = [sess EXCEPT
            !.ops = Append(@, "LOGOUT"),
            !.result = IF sess.exc = "" THEN "return_0" ELSE "raised"]
       /\ pc' = "r_exit"
  /\ Idle12

NextRun12 ==
  \/ Run
  \/ OpenImapSession
  \/ PrepareMailbox
  \/ ImapSearch
  \/ ImapFetchSizes
  \/ MaybeDelete
  \/ ImapMarkDeleted
  \/ ImapExpunge
  \/ CloseSessionClose
  \/ CloseSessionLogout

SpecRun12 ==
  /\ InitRun12
  /\ [][NextRun12]_vars
  /\ WF_vars(NextRun12)

\* ------------------------------------------------------------- claims
WindowPcs == {"w_loop", "w_search", "w_batch", "w_store", "w_expunge",
              "w_recheck", "w_close"}

Issued(op) == \E i \in 1 .. Len(log) : log[i] = op

\* the operation a step issues, "" when it issues none
StepOp == IF Len(log') > Len(log) THEN log'[Len(log')] ELSE ""

\* C1: in dry-run mode no STORE, no EXPUNGE and no read-write select is ever
\* issued, the deleted count returned is 0, and the fast path returns
\* (exists, 0).
C1_DryRunNeverMutates ==
  args.dry_run =>
    /\ ~Issued("STORE") /\ ~Issued("EXPUNGE") /\ ~Issued("SELECT_RW")
    /\ ret # <<>> => ret[2] = 0
    /\ (ret # <<>> /\ exists > 0 /\ exists <= args.min_messages)
         => ret = <<exists, 0>>

\* a dry-run windowed scan that saw messages and returned
C1_Witness ==
  /\ args.dry_run /\ pc = "returned" /\ yielded # <<>> /\ ret[1] > 0

\* C2: a destructive run without the confirmation flag ends as a usage
\* error before any remote operation is issued.
C2_UsageErrorBeforeRemote ==
  (~args.dry_run /\ ~args.confirm) =>
    /\ log = <<>>
    /\ pc \in {"main", "usage_error"}

C2_Witness == ~args.dry_run /\ ~args.confirm /\ pc = "usage_error"

\* C3: when the stop flag is raised while a batch of a windowed scan is in
\* flight, that batch's STORE and EXPUNGE are still issued and counted; after
\* it no STORE, EXPUNGE or search is issued, the totals no longer change, and
\* the scan closes and returns (total_seen, total_deleted).
C3_CancelMidBatch ==
  [][/\ (pc = "w_store" /\ pc' # pc)
          => (pc' = "w_expunge" /\ log' = Append(log, "STORE"))
     /\ (pc = "w_expunge" /\ pc' # pc)
          => /\ log' = Append(log, "EXPUNGE")
             /\ total_deleted' = total_deleted
                  + Len(chunked(uids, bi, args.batch_size))
     /\ (stop_mid_batch /\ pc \in WindowPcs \ InFlight)
          => /\ StepOp \notin {"STORE", "EXPUNGE", "SEARCH_WIN", "SEARCH_ALL"}
             /\ total_seen' = total_seen /\ total_deleted' = total_deleted
             /\ pc' \in {"w_batch", "w_recheck", "w_loop", "w_close", "returned"}
     /\ (stop_mid_batch /\ pc = "w_close" /\ pc' # pc)
          => (pc' = "returned" /\ ret' = <<total_seen, total_deleted>>)
    ]_vars

\* the flag arrived mid-batch; the scan returned with a batch deleted while
\* a further batch and a further window were still to come
C3_Witness ==
  /\ stop_mid_batch /\ pc = "returned" /\ yielded # <<>>
  /\ ret[2] > 0 /\ bi < Len(uids) /\ GenCanYield(it)

\* C4: the stop flag is polled before every new batch, in the fast path and
\* in the windowed scan: no batch is started (control never moves to a
\* batch's STORE) once the flag is set.
C4_StopPolledBeforeEveryBatch ==
  [][(pc' \in {"fp_store", "w_store"} /\ pc' # pc) => ~STOP_REQUESTED]_vars

\* C5: once the recheck after a window returns 0 the scan of the mailbox
\* stops: control goes to the close, and no search, STORE or EXPUNGE is
\* issued afterwards.
C5_RecheckZeroStops ==
  [][/\ (pc = "w_recheck" /\ pc' # pc /\ remain' = <<0>>) => pc' = "w_close"
     /\ (remain = <<0>> /\ pc \in WindowPcs)
          => (pc = "w_close" /\ StepOp \in {"", "CLOSE"})
     /\ remain = <<0>>
          => StepOp \notin {"STORE", "EXPUNGE", "SEARCH_WIN", "SEARCH_ALL"}
    ]_vars

\* the recheck returned 0 and the scan ended with windows and budget left
C5_Witness ==
  /\ remain = <<0>> /\ pc = "returned" /\ GenCanYield(it)

\* C6: adaptive growth on, max_empty_windows = 3, span below the cap: the
\* third consecutive empty window doubles cur_window_days (capped at
\* max_window_days), resets empty_streak to 0, and the scan goes on to the
\* next window.
C6_AdaptiveGrowthStep ==
  [][(/\ pc = "w_search" /\ pc' # pc
      /\ args.adaptive_windows /\ args.max_empty_windows = 3
      /\ cur_window_days < args.max_window_days
      /\ empty_streak = 2 /\ total_seen' = total_seen)
       => /\ cur_window_days' = Min(2 * cur_window_days, args.max_window_days)
          /\ empty_streak' = 0
          /\ pc' = "w_loop"
    ]_vars

\* after such a growth step the scan is searching a further window
C6_Witness ==
  /\ args.adaptive_windows /\ args.max_empty_windows = 3
  /\ cur_window_days > args.window_days /\ empty_streak = 0
  /\ pc = "w_search" /\ Len(yielded) = 4

\* C7: every window searched has the length of the current span
\* cur_window_days (growth steps included), unless it is clamped at
\* hard_stop.
C7_SearchedSpanFollowsGrowth ==
  pc = "w_search" =>
    (win[2] - win[1] = cur_window_days \/ win[1] = HardStop)

\* C8: adaptive growth off, some earlier window non-empty: the N-th
\* consecutive empty window (N = max_empty_windows) ends the scan; the
\* mailbox is closed, (total_seen, total_deleted) as they stand are
\* returned, and no search is issued afterwards.
C8_AbortAfterEmptyStreak ==
  [][/\ (/\ pc = "w_search" /\ pc' # pc
         /\ ~args.adaptive_windows /\ nonempty_seen_once
         /\ empty_streak + 1 = args.max_empty_windows
         /\ total_seen' = total_seen)
          => (pc' = "w_close" /\ total_deleted' = total_deleted)
     /\ (pc = "w_close" /\ pc' # pc)
          => /\ log' = Append(log, "CLOSE")
             /\ pc' = "returned"
             /\ ret' = <<total_seen, total_deleted>>
     /\ pc \in {"returned", "exit_ok"}
          => StepOp \in {"", "LOGOUT"}
    ]_vars

\* the scan was aborted by the empty streak with windows still to come
C8_Witness ==
  /\ ~args.adaptive_windows /\ nonempty_seen_once
  /\ empty_streak = args.max_empty_windows
  /\ pc = "returned" /\ GenCanYield(it) /\ ret[1] > 0

\* C9: the windows one generator yields (constant span) are contiguous, each
\* window's end being the start of the one before it, and no window starts
\* before hard_stop.
C9_WindowContiguity ==
  \A i \in 1 .. Len(yielded) :
    /\ yielded[i][1] >= it.hard_stop
    /\ i < Len(yielded) => yielded[i + 1][2] = yielded[i][1]

\* three windows were yielded, the last one cut short at hard_stop
C9_Witness ==
  /\ pc = "gen" /\ Len(yielded) = 3 /\ it.span_days = 2
  /\ yielded[3][1] = it.hard_stop /\ yielded[3][2] - yielded[3][1] = 1

\* C10: the generator never yields more than max_windows windows, yields
\* nothing when end_exclusive is not after hard_stop, and always comes to
\* its end, whatever its arguments.
C10_WindowsBounded ==
  /\ [](/\ Len(yielded) <= Max(0, it.max_windows)
        /\ it.end_exclusive <= it.hard_stop => yielded = <<>>)
  /\ <>(pc = "gen_done")

\* the generator stopped on its window budget with dates still to cover
C10_Witness ==
  /\ pc = "gen_done" /\ it.max_windows = 2 /\ Len(yielded) = 2
  /\ it.end > it.hard_stop

FastPcs == {"fp_select", "fp_search", "fp_loop", "fp_store", "fp_expunge",
            "fp_close"}

\* C11 (as stated): once delete_in_mailbox has returned, a mailbox that held
\* exactly min_messages (> 0) messages has had an all-messages search and no
\* date-ranged search, and one that held min_messages + 1 has had date-ranged
\* searches and no all-messages search.
C11_BoundarySearches ==
  (pc = "returned" /\ exists > 0) =>
    /\ (exists = args.min_messages) =>
         (Issued("SEARCH_ALL") /\ ~Issued("SEARCH_WIN"))
    /\ (exists = args.min_messages + 1) =>
         (Issued("SEARCH_WIN") /\ ~Issued("SEARCH_ALL"))

\* C11 (amended): the count of the first select picks the path, the fast
\* path exactly for 0 < exists <= min_messages and the windowed scan exactly
\* for exists > min_messages. A date-ranged search is issued only on the
\* windowed path and an all-messages search only on the fast path of a
\* destructive run; the fast path searches once its read-write select has
\* succeeded (a dry run returns (exists, 0) without searching), and the
\* windowed path searches its first window unless a stop was requested.
C11_PathByCount ==
  [][ /\ (pc = "d_select" /\ pc' # pc /\ exists' > 0) =>
           /\ (pc' = "w_select") <=> (exists' > args.min_messages)
           /\ (pc' \in {"fp_select", "returned"}) <=>
                (exists' <= args.min_messages)
           /\ (pc' = "returned") =>
                (args.dry_run /\ ret' = <<exists', 0>> /\ StepOp = "SELECT_RO")
      /\ (StepOp = "SEARCH_ALL") =>
           (exists > 0 /\ exists <= args.min_messages /\ ~args.dry_run)
      /\ (StepOp = "SEARCH_WIN") => (exists > args.min_messages)
      /\ (pc = "fp_select" /\ selected' = "rw") => (pc' = "fp_search")
      /\ (pc = "fp_search" /\ pc' # pc) => (StepOp = "SEARCH_ALL")
      /\ (pc = "w_select" /\ pc' # pc) => (pc' = "w_loop")
      /\ (pc = "w_loop" /\ pc' # pc /\ yielded = <<>> /\ ~STOP_REQUESTED) =>
           (pc' = "w_search")
      /\ (pc = "w_search" /\ pc' # pc) => (StepOp = "SEARCH_WIN")
    ]_vars

\* a destructive fast path at the boundary: exactly min_messages messages,
\* searched with SEARCH ALL and returned
C11_Witness ==
  /\ pc = "returned" /\ exists > 0 /\ exists = args.min_messages
  /\ Issued("SEARCH_ALL") /\ ~Issued("SEARCH_WIN")
  /\ ret = <<exists, exists>>

\* C12: either wrapper calls the remote operation at most max_retries + 1
\* times and always comes to an end; when every attempt failed with a
\* non-OK status, a connection abort, a timeout or an I/O error, it has made
\* exactly max_retries + 1 attempts and returns the failure result 'NO',
\* without raising.
C12_RetryBounded ==
  /\ [](/\ retry.tries <= retry.max_retries + 1
        /\ (/\ pc = "r_done" /\ retry.result # "OK"
            /\ retry.failures \subseteq (NonOkStatuses \cup CaughtExceptions))
             => (retry.result = "NO" /\ retry.tries = retry.max_retries + 1))
  /\ <>(pc = "r_done")

\* the default six attempts, failing by status and by exception, given up
C12_Witness ==
  /\ pc = "r_done" /\ retry.result = "NO"
  /\ retry.max_retries = MaxRetriesDefault /\ retry.tries = MaxRetriesDefault + 1
  /\ "NO" \in retry.failures /\ "timeout" \in retry.failures
  /\ Len(retry.slept) = MaxRetriesDefault

\* C13: whenever delete_in_mailbox has returned after its first select
\* succeeded, the last remote operation it issued is the CLOSE of the
\* mailbox.
C13_CloseBeforeReturn ==
  (pc = "returned" /\ exists >= 0) => (log[Len(log)] = "CLOSE")

\* C14: when the first select of a mailbox fails, delete_in_mailbox returns
\* (0, 0) having issued nothing but that select, and main goes on to the
\* next mailbox of its list: it takes it up and, unless a stop was requested,
\* enters delete_in_mailbox for it.
C14_FailedOpenSkipsMailbox ==
  [][ /\ (pc = "d_select" /\ pc' # pc /\ exists' < 0) =>
           (pc' = "returned" /\ ret' = <<0, 0>> /\ StepOp = "SELECT_RO")
      /\ (pc = "returned" /\ pc' # pc /\ pending # <<>>) =>
           (pc' = "mailbox" /\ msgs' = Head(pending) /\ StepOp = "")
      /\ (pc = "mailbox" /\ pc' # pc /\ ~STOP_REQUESTED) =>
           (pc' = "d_select" /\ StepOp = "")
    ]_vars

\* the first mailbox could not be opened; the second has been scanned and
\* its message seen
C14_Witness ==
  /\ pc = "returned" /\ Len(done) = 1
  /\ done[1].exists < 0 /\ done[1].ret = <<0, 0>>
  /\ exists > 0 /\ ret[1] > 0

\* C15: a STORE or an expunge that fails does not end anything: the batch
\* goes on to its expunge and its count, the loop takes the next batch while
\* one is left (and, in the windowed scan, no stop was requested), and after
\* the batches of a window the recheck leads on to the next window unless it
\* finds the mailbox empty.
C15_BatchFailureGoesOn ==
  [][ /\ (pc = "w_store" /\ fails' > fails) => (pc' = "w_expunge")
      /\ (pc = "fp_store" /\ fails' > fails) => (pc' = "fp_expunge")
      /\ (pc = "w_expunge" /\ fails' > fails) =>
           (pc' = "w_batch" /\ bi' = bi + args.batch_size)
      /\ (pc = "fp_expunge" /\ fails' > fails) =>
           (pc' = "fp_loop" /\ bi' = bi + args.batch_size)
      /\ (pc = "w_batch" /\ pc' # pc) =>
           (pc' = IF bi < Len(uids) /\ ~STOP_REQUESTED
                  THEN "w_store" ELSE "w_recheck")
      /\ (pc = "fp_loop" /\ pc' # pc /\ bi < Len(uids)) => (pc' = "fp_store")
      /\ (pc = "w_recheck" /\ pc' # pc /\ remain'[1] # 0) => (pc' = "w_loop")
    ]_vars

\* the second batch of a window is about to be stored although the first
\* batch's message is still in the mailbox: its STORE or its expunge failed
C15_Witness ==
  /\ pc = "w_store" /\ bi > 0 /\ fails > 0 /\ selected = "rw"
  /\ uids[1] \in present

\* the empty windows at the end of a history, back to the last window that
\* held a message or grew the span
RECURSIVE TrailingEmpties(_)
TrailingEmpties(h) ==
  IF h = <<>> THEN 0
  ELSE IF h[Len(h)].count > 0 \/ h[Len(h)].grew THEN 0
  ELSE 1 + TrailingEmpties(SubSeq(h, 1, Len(h) - 1))

\* C16: throughout a windowed scan empty_streak is 0 when the window searched
\* last held a message, and it always equals the number of empty windows
\* searched since the last non-empty window or growth step.
C16_EmptyStreakCounts ==
  pc \in WindowPcs =>
    /\ (hist # <<>> /\ hist[Len(hist)].count > 0) => (empty_streak = 0)
    /\ empty_streak = TrailingEmpties(hist)

\* a window with a message right after an empty one
C16_Witness ==
  /\ pc \in WindowPcs /\ Len(hist) >= 2
  /\ hist[Len(hist) - 1].count = 0 /\ ~hist[Len(hist) - 1].grew
  /\ hist[Len(hist)].count > 0 /\ empty_streak = 0

\* C17: during a windowed scan cur_window_days never decreases; a step that
\* changes it doubles it or sets it to max_window_days; and it never exceeds
\* the larger of the initial span and max_window_days.
C17_SpanOnlyGrows ==
  [][ (pc \in WindowPcs) =>
        /\ cur_window_days' >= cur_window_days
        /\ (cur_window_days' # cur_window_days) =>
             (\/ cur_window_days' = 2 * cur_window_days
              \/ cur_window_days' = args.max_window_days)
        /\ cur_window_days' <= Max(Max(1, args.window_days),
                                   args.max_window_days)
    ]_vars

\* the span was raised to the cap, short of doubling
C17_Witness ==
  /\ pc \in WindowPcs
  /\ cur_window_days = args.max_window_days
  /\ cur_window_days > Max(1, args.window_days)
  /\ cur_window_days < 2 * Max(1, args.window_days)

RECURSIVE Flatten(_)
Flatten(ss) == IF ss = <<>> THEN <<>> ELSE Head(ss) \o Flatten(Tail(ss))

OpCount(op) == Cardinality({i \in 1 .. Len(log) : log[i] = op})

\* C19: when a destructive fast path has returned and no operation failed,
\* the batches it stored are, in order, the identifiers of the all-messages
\* search, each exactly once; there are ceil(n / batch_size) of them, none
\* empty and none longer than batch_size; every message is gone and the
\* result is (exists, n). Ten messages with a batch size of ten or more are
\* one batch of ten, stored once and expunged once.
C19_FastPathPartition ==
  (pc = "returned" /\ fails = 0) =>
    /\ Flatten(batches) = uids
    /\ uids = UidList(1 .. Len(msgs))
    /\ Len(batches) = (Len(uids) + args.batch_size - 1) \div args.batch_size
    /\ \A k \in 1 .. Len(batches) :
         Len(batches[k]) >= 1 /\ Len(batches[k]) <= args.batch_size
    /\ OpCount("STORE") = Len(batches) /\ OpCount("EXPUNGE") = Len(batches)
    /\ present = {}
    /\ ret = <<exists, Len(uids)>>
    /\ (exists = 10 /\ args.batch_size >= 10) =>
         (Len(batches) = 1 /\ Len(batches[1]) = 10)

\* the scenario: ten messages, min_messages 50, one batch of ten
C19_Witness ==
  /\ pc = "returned" /\ fails = 0
  /\ exists = 10 /\ args.min_messages = 50 /\ args.batch_size >= 10
  /\ Len(batches) = 1 /\ Len(batches[1]) = 10 /\ ret = <<10, 10>>

\* the group of a mailbox as the claim names them: Inbox-named, All, Normal,
\* Trash, Spam, the last four by the kind
GroupByKind(box) ==
  IF InboxNamed(box) THEN 0
  ELSE IF box[1] = "all" THEN 1
  ELSE IF box[1] = "trash" THEN 3
  ELSE IF box[1] = "spam" THEN 4
  ELSE 2

\* the group as the function forms them: a mailbox named "all mail" belongs
\* to the All group whatever its kind
GroupByKindOrName(box) ==
  IF InboxNamed(box) THEN 0
  ELSE IF box[1] = "all" \/ AllMailNamed(box) THEN 1
  ELSE IF box[1] = "trash" THEN 3
  ELSE IF box[1] = "spam" THEN 4
  ELSE 2

\* C20 (as stated): in the default ordering no mailbox of a later group
\* (Inbox-named, All, Normal, Trash, Spam) precedes one of an earlier group.
C20_GroupOrderByKind ==
  (pc = "dm_done" /\ ~disc.only_important) =>
    \A i, j \in 1 .. Len(disc.result) :
      (i < j) => (GroupByKind(disc.result[i]) <= GroupByKind(disc.result[j]))

\* C20 (amended): in the default ordering no mailbox of a later group
\* precedes one of an earlier group, the groups being: Inbox-named; flagged
\* All or named "all mail"; other Normal; Trash; Spam.
C20_GroupOrder ==
  (pc = "dm_done" /\ ~disc.only_important) =>
    \A i, j \in 1 .. Len(disc.result) :
      (i < j) => (GroupByKindOrName(disc.result[i])
                    <= GroupByKindOrName(disc.result[j]))

\* three mailboxes listed backwards (Spam, Normal, All) and returned in
\* group order
C20_Witness ==
  /\ pc = "dm_done" /\ ~disc.only_important
  /\ Len(disc.boxes) = 3 /\ Len(disc.result) = 3
  /\ GroupByKindOrName(disc.boxes[1]) = 4
  /\ GroupByKindOrName(disc.boxes[2]) = 2
  /\ GroupByKindOrName(disc.boxes[3]) = 1
  /\ disc.result = <<disc.boxes[3], disc.boxes[2], disc.boxes[1]>>

\* the filter condition as the claim words it
NameHas(box, filters) ==
  \E k \in 1 .. Len(filters) :
    Contains(ToLower(box[2]), ToLower(filters[k]))

FiltersPass(box) ==
  /\ (disc.include_filters = <<>> \/ NameHas(box, disc.include_filters))
  /\ ~NameHas(box, disc.exclude_filters)

Allowed12 == ~sess.dry_run /\ sess.confirmed

Ops12(op) == Cardinality({i \in 1 .. Len(sess.ops) : sess.ops[i] = op})

SessionClosed ==
  /\ Len(sess.ops) >= 2
  /\ sess.ops[Len(sess.ops) - 1] = "CLOSE"
  /\ sess.ops[Len(sess.ops)] = "LOGOUT"
  /\ Ops12("CLOSE") = 1 /\ Ops12("LOGOUT") = 1

\* C24: once open_imap_session has returned, run always comes to its end with
\* close_session having issued CLOSE and then LOGOUT, each once, as the last
\* two operations of the session: whether the flow returned normally or the
\* select, the search or the deletion raised, and also when CLOSE itself
\* raised an imaplib.IMAP4.error or an OSError.
C24_SessionAlwaysClosed ==
  (pc = "r_select") ~> (pc = "r_exit" /\ SessionClosed)

\* a run whose select was refused and whose CLOSE raised, LOGOUT still issued
C24_Witness ==
  /\ pc = "r_exit" /\ SessionClosed
  /\ sess.exc = "runtime" /\ sess.closed = "error"
  /\ sess.result = "raised"

GrowthPossible == args.adaptive_windows /\ cur_window_days < args.max_window_days

\* C25: with adaptive growth on and the span below the cap, an empty window
\* that brings empty_streak to max_empty_windows grows the span, resets the
\* streak and lets the scan go on, whether or not a non-empty window was seen
\* before; a search leads to the end of the scan only when growth is off or
\* the span is not below the cap.
C25_GrowthBeforeAbort ==
  [][ /\ (/\ pc = "w_search" /\ uids' = <<>>
          /\ GrowthPossible
          /\ empty_streak + 1 >= args.max_empty_windows)
        => /\ pc' = "w_loop"
           /\ cur_window_days' = Min(2 * cur_window_days, args.max_window_days)
           /\ cur_window_days' > cur_window_days
           /\ empty_streak' = 0
      /\ (pc = "w_search" /\ pc' = "w_close") => ~GrowthPossible
    ]_vars

\* the span just grew on an empty window, after a non-empty window was seen
C25_Witness ==
  /\ pc = "w_loop" /\ nonempty_seen_once
  /\ hist # <<>> /\ hist[Len(hist)].grew
  /\ cur_window_days > Max(1, args.window_days)
  /\ empty_streak = 0

\* C26: when growth cannot apply (it is off or the span is not below the cap)
\* and no window of this mailbox has been non-empty, an empty window ends the
\* scan exactly when empty_streak has reached max_empty_windows and the
\* windows searched so far, this one included, number at least
\* max(5, max_empty_windows); otherwise the scan goes on to the next window.
C26_NoEarlyAbort ==
  [][ (/\ pc = "w_search" /\ uids' = <<>>
       /\ ~GrowthPossible /\ ~nonempty_seen_once)
        => /\ empty_streak' = empty_streak + 1
           /\ IF /\ empty_streak' >= args.max_empty_windows
                 /\ Len(hist') >= Max(5, args.max_empty_windows)
              THEN pc' = "w_close"
              ELSE pc' = "w_loop"
    ]_vars

\* a scan ended by the empty-streak rule with nothing seen, the generator
\* still having windows to yield
C26_Witness ==
  /\ pc = "w_close" /\ ~nonempty_seen_once /\ ~GrowthPossible
  /\ GenCanYield(it) /\ ~STOP_REQUESTED
  /\ Len(hist) >= Max(5, args.max_empty_windows)
  /\ empty_streak >= args.max_empty_windows
  /\ args.max_empty_windows > 5

WinLen(w) == w[2] - w[1]

\* C27: for span_days >= 1, the first window iter_day_windows_backward yields
\* ends at end_exclusive, every window has start < end, every window but the
\* last has length exactly span_days, and the last one is either of that
\* length or shorter and starting exactly at hard_stop.
C27_WindowShape ==
  (it.span_days >= 1) =>
    /\ (yielded # <<>>) => yielded[1][2] = it.end_exclusive
    /\ \A i \in 1 .. Len(yielded) :
         /\ yielded[i][1] < yielded[i][2]
         /\ \/ WinLen(yielded[i]) = it.span_days
            \/ /\ i = Len(yielded)
               /\ WinLen(yielded[i]) < it.span_days
               /\ yielded[i][1] = it.hard_stop

\* a finished generator whose last of several windows was cut at hard_stop
C27_Witness ==
  /\ pc = "gen_done" /\ it.span_days >= 2
  /\ Len(yielded) >= 2
  /\ WinLen(yielded[1]) = it.span_days
  /\ WinLen(yielded[Len(yielded)]) < it.span_days
  /\ yielded[Len(yielded)][1] = it.hard_stop

\* C28: in the operations issued so far, every STORE that is not the last
\* operation is followed at once by an EXPUNGE and every EXPUNGE comes right
\* after a STORE; so between the STOREs of two batches there is always an
\* EXPUNGE, and no EXPUNGE comes before the first STORE.
C28_StoreThenExpunge ==
  /\ \A i \in 1 .. Len(log) :
       /\ (log[i] = "STORE" /\ i < Len(log)) => log[i + 1] = "EXPUNGE"
       /\ (log[i] = "EXPUNGE") => (i > 1 /\ log[i - 1] = "STORE")
  /\ \A i \in 1 .. Len(log), j \in 1 .. Len(log) :
       (i < j /\ log[i] = "STORE" /\ log[j] = "STORE")
         => \E k \in (i + 1) .. (j - 1) : log[k] = "EXPUNGE"
  /\ (pc \in {"fp_expunge", "w_expunge"}) => log[Len(log)] = "STORE"

\* a destructive run that has stored and expunged two batches
C28_Witness ==
  /\ ~args.dry_run
  /\ OpCount("STORE") >= 2 /\ OpCount("EXPUNGE") >= 2
  /\ pc = "exit_ok"

\* C29: when the first, read-only select reports exists == 0,
\* delete_in_mailbox returns (0, 0) at once, that select being its only
\* operation: no fast path and no windowed scan is entered for the mailbox,
\* and the next operation, if any, belongs to main.
C29_EmptyMailboxReturns ==
  [][ /\ (pc = "d_select" /\ pc' # pc /\ exists' = 0)
        => (pc' = "returned" /\ ret' = <<0, 0>> /\ StepOp = "SELECT_RO")
      /\ (pc = "returned" /\ exists = 0) => StepOp \in {"", "LOGOUT"}
      /\ (exists' = 0) => pc' \notin ({"w_select"} \cup FastPcs \cup WindowPcs)
    ]_vars

\* the second mailbox of a destructive run turned out empty
C29_Witness ==
  /\ pc = "returned" /\ exists = 0 /\ msgs = <<>>
  /\ ~args.dry_run /\ Len(done) = 1
  /\ ret = <<0, 0>>

LogoutCount(l) == Cardinality({i \in 1 .. Len(l) : l[i] = "LOGOUT"})

\* C30: main enters delete_in_mailbox for a mailbox only from its loop test
\* and only while STOP_REQUESTED is false; with the flag set the loop test
\* ends the loop, leaving the remaining mailboxes unopened; a mailbox is
\* taken up only after the one before it returned, in the order of the list;
\* and LOGOUT has been issued once when the run has ended after its login,
\* never before.
C30_StopStartsNoMailbox ==
  [][ /\ (pc = "mailbox" /\ pc' = "d_select") => ~STOP_REQUESTED
      /\ (pc = "mailbox" /\ STOP_REQUESTED /\ pc' # pc)
           => (pc' = "exit_ok" /\ StepOp = "LOGOUT" /\ pending' = pending)
      /\ (pc' = "d_select" /\ pc # "d_select") => pc = "mailbox"
      /\ (pc = "returned" /\ pc' = "mailbox")
           => /\ msgs' = Head(pending) /\ pending' = Tail(pending)
              /\ Len(done') = Len(done) + 1
      /\ (msgs' # msgs \/ pending' # pending) => pc = "returned"
      /\ LogoutCount(log') =
           IF pc' \in {"exit_ok", "list_failed"} THEN 1 ELSE 0
      /\ (pc' \in {"exit_ok", "list_failed"}) => log'[Len(log')] = "LOGOUT"
    ]_vars

\* a run stopped during its first mailbox: the second was never opened
C30_Witness ==
  /\ pc = "exit_ok" /\ STOP_REQUESTED
  /\ Len(done) = 1 /\ pending = <<>>
  /\ LogoutCount(log) = 1

C32_BackoffSchedule ==
  /\ \A i \in 1 .. Len(retry.slept) :
       retry.slept[i] = 80 * (2 ^ (i - 1)) + 25 * (i - 1)
  /\ (pc = "r_try") => Len(retry.slept) = retry.tries
  /\ (pc = "r_failed") => Len(retry.slept) = retry.tries - 1
  /\ (pc = "r_done" /\ retry.tries > 0) => Len(retry.slept) = retry.tries - 1
  /\ (pc = "r_done" /\ retry.result = "NO")
       => Len(retry.slept) = retry.max_retries

\* two failed attempts, backed off 0.8 s and 1.85 s, then an OK result
C32_Witness ==
  /\ pc = "r_done" /\ retry.result = "OK"
  /\ retry.slept = <<80, 185>>
  /\ retry.tries = 3 /\ retry.max_retries = MaxRetriesDefault

\* C33: in a destructive windowed scan in which no remote call has failed,
\* the mailbox is selected read-write whenever a STORE or an EXPUNGE is about
\* to be issued, also in the windows that follow a recheck of the remaining
\* count.
C33_BatchesOnReadWrite ==
  (pc \in {"w_store", "w_expunge"} /\ fails = 0) => selected = "rw"

\* C34: when delete_in_mailbox has returned, the deleted count of the pair it
\* returned is at most the number of messages that are gone from the mailbox.
C34_DeletedCountIsRemoved ==
  (pc = "returned") => ret[2] <= Len(msgs) - Cardinality(present)

\* C35: a date-ranged search that failed after its retries leaves total_seen
\* as it was and is treated as an empty window: with growth due and the span
\* below the cap the span grows and the streak is reset, otherwise
\* empty_streak goes up by one and the scan ends if the abort rule says so
\* and goes on to the next window if not.
C35_FailedSearchIsEmpty ==
  [][ (pc = "w_search" /\ fails' > fails)
        => /\ total_seen' = total_seen
           /\ nonempty_seen_once' = nonempty_seen_once
           /\ IF /\ args.adaptive_windows
                 /\ empty_streak + 1 >= args.max_empty_windows
                 /\ cur_window_days < args.max_window_days
              THEN /\ cur_window_days' =
                        Min(2 * cur_window_days, args.max_window_days)
                   /\ empty_streak' = 0
                   /\ pc' = "w_loop"
              ELSE /\ cur_window_days' = cur_window_days
                   /\ empty_streak' = empty_streak + 1
                   /\ pc' = IF /\ empty_streak' >= args.max_empty_windows
                               /\ \/ nonempty_seen_once
                                  \/ Len(hist') >= Max(5, args.max_empty_windows)
                            THEN "w_close" ELSE "w_loop"
    ]_vars

\* the search of the window that holds the mailbox's message failed: the
\* window counted as empty and the scan went on
C35_Witness ==
  /\ pc = "w_loop" /\ fails > 0 /\ selected # "none"
  /\ hist # <<>> /\ hist[Len(hist)].count = 0
  /\ \E u \in present : msgs[u] >= win[1] /\ msgs[u] < win[2]
  /\ total_seen = 0 /\ empty_streak >= 1

\* the windows of this scan that were searched: all the for statement was
\* given, but the last one when the stop check came before its search
Searched == SubSeq(yielded, 1, Len(hist))

\* C36: the windows searched in one mailbox scan, growth steps included, are
\* non-empty and each ends where the one before it starts, so they are
\* pairwise disjoint and leave no gap; no message is counted twice, so
\* total_seen never exceeds the number of messages of the mailbox.
C36_WindowsContiguous ==
  (pc \in WindowPcs) =>
    /\ Len(hist) <= Len(yielded) /\ Len(yielded) <= Len(hist) + 1
    /\ \A i \in 1 .. Len(Searched) : Searched[i][1] < Searched[i][2]
    /\ \A i \in 2 .. Len(Searched) : Searched[i][2] = Searched[i - 1][1]
    /\ \A i \in 1 .. Len(Searched), j \in 1 .. Len(Searched) :
         (i < j) => Searched[j][2] <= Searched[i][1]
    /\ total_seen <= Len(msgs)

\* a scan that grew its span and searched at least three windows after that
C36_Witness ==
  /\ pc = "w_close" /\ Len(hist) >= 4
  /\ \E i \in 1 .. Len(hist) - 3 : hist[i].grew
  /\ cur_window_days > Max(1, args.window_days)

\* C37: throughout a mailbox scan empty_streak is at most
\* max(5, max_empty_windows).
C37_StreakBounded ==
  empty_streak <= Max(5, args.max_empty_windows)

\* a scan that saw nothing reached a streak of five empty windows with
\* max_empty_windows = 1, and ended there
C37_Witness ==
  /\ pc = "w_close" /\ args.max_empty_windows = 1
  /\ empty_streak = 5 /\ ~nonempty_seen_once
  /\ GenCanYield(it)

\* C38: in one mailbox scan the date-ranged searches issued, and the windows
\* the for statement was given, never number more than max_windows, growth
\* steps included.
C38_WindowsBounded ==
  /\ Len(hist) <= args.max_windows
  /\ Len(yielded) <= args.max_windows
  /\ Cardinality({i \in 1 .. Len(log) : log[i] = "SEARCH_WIN"}) = Len(hist)

\* a scan that grew its span and stopped for having used up max_windows
C38_Witness ==
  /\ pc = "w_close" /\ Len(hist) = args.max_windows
  /\ \E i \in 1 .. Len(hist) : hist[i].grew
  /\ it.end > it.hard_stop /\ ~GenCanYield(it)

\* C39: throughout a windowed scan, whatever the Progress object had counted
\* before the mailbox, its counters equal the engine's: seen is total_seen,
\* deleted is total_deleted, and windows is the number of windows searched.
C39_ProgressMirrorsEngine ==
  (pc \in WindowPcs) =>
    /\ progress.seen = total_seen
    /\ progress.deleted = total_deleted
    /\ progress.windows = Len(hist)

\* the end of a destructive scan that searched two windows, saw two messages
\* and counted a batch
C39_Witness ==
  /\ pc = "w_close" /\ ~args.dry_run
  /\ progress.windows >= 2 /\ progress.seen >= 2 /\ progress.deleted >= 1

\* remote calls delete_in_mailbox has issued (the three before it are main's)
Calls == Len(log) - 3

\* C40: delete_in_mailbox always comes to its return, with or without a stop
\* request and whichever calls fail, and the remote calls it issues never
\* number more than 3 + 2 * max_windows + 2 * (messages of the mailbox): the
\* selects and the close, a search and a recheck per window, a STORE and an
\* EXPUNGE per batch.
C40_ReachesDone ==
  /\ [](Calls <= 3 + 2 * args.max_windows + 2 * Len(msgs))
  /\ <>(pc = "returned")

\* a destructive windowed scan that grew its span, was not stopped, and
\* returned
C40_Witness ==
  /\ pc = "returned" /\ ~STOP_REQUESTED /\ ~args.dry_run
  /\ \E i \in 1 .. Len(hist) : hist[i].grew
  /\ Len(hist) = args.max_windows
  /\ total_deleted >= 1

====
